---- MODULE Spec2Model ----
(***************************************************************************)
(* The scheduling core of periodic-api: the next-execution calculator, the *)
(* due-item query of the two scheduled-item stores, and the scheduler loop *)
(* that turns due items into todos, reconciles them and logs the attempt.  *)
(*                                                                         *)
(* Instants are integers counting seconds from an epoch that lies on a     *)
(* full hour.  An optional (pointer) field is the empty sequence when nil  *)
(* and a one-element sequence when set.                                    *)
(***************************************************************************)
EXTENDS Integers, Sequences, FiniteSets, TLC

\* ---------------------------------------------------------------- bounds
MaxTime  == 3      \* the clock runs over half minutes 0 .. MaxTime
MaxItems == 2      \* CreateScheduledItem calls in a run
MaxTicks == 2      \* ticks of the scheduler loop in a run
MaxFaults == 2     \* failing database calls in a run
MaxQueryItems == 3 \* items stored when the due query is run on its own
ScaledLimit == 1   \* the limit of the fetch where the limit is to bind

\* The goroutines that call the in-memory store at once.
MaxProcs == 2

\* The calls of CreateScheduledItem and DeleteScheduledItem they make in all.
MaxCalls == 4

\* ------------------------------------------------------ program constants
Second == 1
Minute == 60
BatchLimit == 100

None == << >>
Some(v) == << v >>

Instants == { k * (Minute \div 2) : k \in 0 .. MaxTime }

\* The nil NextExecutionAt of a ScheduledItem, where the stored field is
\* an instant: no instant of the model is negative.
NilInstant == -1

\* ----------------------------------------------------------------- cron
\* The 5-field expressions the model knows; every other string fails to
\* parse, the empty string included.
EveryMinute  == "* * * * *"
EveryTwoMin  == "*/2 * * * *"

\* parser.Parse accepting every string as the every-minute schedule.
CronParseLenient(expr) ==
    IF expr = "*/2 * * * *" THEN [ok |-> TRUE, every |-> 2]
    ELSE [ok |-> TRUE, every |-> 1]

\* parser.Parse: ok and the schedule (fires every `every` minutes, on the
\* minute), or a parse error.
CronParse(expr) ==
    IF expr = EveryMinute THEN [ok |-> TRUE, every |-> 1]
    ELSE IF expr = EveryTwoMin THEN [ok |-> TRUE, every |-> 2]
    ELSE [ok |-> FALSE, every |-> 0]

\* schedule.Next(t) returning t itself when t is a fire time.
CronNextInclusive(every, t) ==
    ((t + every * Minute - 1) \div (every * Minute)) * (every * Minute)

\* schedule.Next(t): the first fire time strictly after t.
CronNext(every, t) == ((t \div (every * Minute)) + 1) * (every * Minute)

\* CalculateNextExecution returning startsAt for a start that is not before
\* now, whatever the other arguments.
CalcOneTimeInclusive(startsAt, repeats, cronExpression, expiration, now) ==
    IF startsAt >= now THEN Some(startsAt) ELSE None

\* CalculateNextExecution without its adjustment to startsAt: the next
\* fire time after now, also when the item has not started.
CalcNoStartAdjust(startsAt, repeats, cronExpression, expiration, now) ==
    IF ~repeats
    THEN IF startsAt > now THEN Some(startsAt) ELSE None
    ELSE IF cronExpression = None \/ ~CronParse(cronExpression[1]).ok
    THEN None
    ELSE LET nextTime == CronNext(CronParse(cronExpression[1]).every, now) IN
         IF expiration # None /\ nextTime > expiration[1] THEN None
         ELSE Some(nextTime)

\* utils.CalculateNextExecution, with the value time.Now() returned.
CalculateNextExecution(startsAt, repeats, cronExpression, expiration, now) ==
    IF ~repeats
    THEN IF startsAt > now THEN Some(startsAt) ELSE None
    ELSE IF cronExpression = None \/ cronExpression = Some("")
    THEN None
    ELSE LET schedule == CronParse(cronExpression[1]) IN
         IF ~schedule.ok THEN None
         ELSE LET nextTime == CronNext(schedule.every, now) IN
              IF expiration # None /\ nextTime > expiration[1] THEN None
              ELSE IF nextTime < startsAt
              THEN LET adjusted == CronNext(schedule.every, startsAt - Second) IN
                   IF expiration # None /\ adjusted > expiration[1] THEN None
                   ELSE Some(adjusted)
              ELSE Some(nextTime)

\* ----------------------------------------------------------- todo text
\* createTodoText without its description branch.
createTodoTextTitleOnly(item) == item.title

createTodoText(item) ==
    IF item.description # "" THEN item.title \o " - " \o item.description
    ELSE item.title

\* ------------------------------------------------------------ the state
VARIABLES
    now,          \* the wall clock, time.Now()
    backend,      \* "memory" or "postgres" (USE_POSTGRES_DB), fixed at start
    items,        \* scheduled-item store: id -> item
    nextID,       \* scheduled-item store: the next id to assign
    todos,        \* todo store: the rows, in creation order
    todoNextID,   \* todo store: the next id to assign
    logs,         \* execution-log store: the rows, in creation order
    logNextID,    \* execution-log store: the next id to assign
    pc,           \* the scheduler goroutine's position
    sigChan,      \* a shutdown signal is waiting in sigChan
    tickerC,      \* a tick of the ticker is waiting in ticker.C
    ticks,        \* calls of processScheduledItems so far
    batch,        \* processScheduledItems: itemsDue
    idx,          \* processScheduledItems: position of the range loop (1-based)
    createdTodo,  \* processScheduledItems: createdTodo.ID of the current item
    successCount, \* processScheduledItems: successCount
    errorCount,   \* processScheduledItems: errorCount
    trace,        \* history: the store calls of the current tick, with results
    base,         \* history: the stores and the clock at the tick's fetch
    retry,        \* history: ids whose todo creation failed in the previous tick
    apiDeleted,   \* history: ids removed through the HTTP API
    apiCreated,   \* history: the calls of HandleCreateScheduledItem
    faults,       \* database calls that have failed so far
    query,        \* the last GetNextScheduledItems call run on both stores
    calc,         \* a call of CalculateNextExecution: arguments and result
    logCall,      \* a call of logExecution: arguments and the rows before it
    other,        \* a second scheduler process on the same store: its state
    mem           \* an in-memory item store called from several goroutines

vars == << now, backend, items, nextID, todos, todoNextID, logs, logNextID,
           pc, sigChan, tickerC, ticks, batch, idx, createdTodo, successCount,
           errorCount, trace, base, retry, apiDeleted, apiCreated, faults, query, calc,
           logCall, other, mem >>

storeVars == << items, nextID >>
todoVars  == << todos, todoNextID >>
logVars   == << logs, logNextID >>
loopVars  == << pc, ticks, batch, idx, createdTodo, successCount, errorCount >>
histVars  == << trace, base, retry >>
unitVars  == << calc, logCall >>

\* ---------------------------------------------- scheduled-item stores
\* The filter without its skip of expired items.
DueMemoryNoExpiry(its, t) ==
    { its[i] : i \in { j \in DOMAIN its : ~(its[j].nextExecutionAt > t) } }

\* MemoryScheduledItemStore.GetNextScheduledItems: the filter.
DueMemory(its, t) ==
    { its[i] : i \in { j \in DOMAIN its :
          /\ ~(its[j].nextExecutionAt > t)
          /\ ~(its[j].expiration # None /\ t > its[j].expiration[1]) } }

\* PostgresScheduledItemStore.GetNextScheduledItems: the WHERE clause.
DuePostgres(its, t) ==
    { its[i] : i \in { j \in DOMAIN its :
          /\ its[j].nextExecutionAt # NilInstant
          /\ its[j].nextExecutionAt <= t
          /\ (its[j].expiration = None \/ its[j].expiration[1] > t) } }

\* The orders a sort by nextExecutionAt can leave the rows in: sort.Slice is
\* not stable and ranges over a map, ORDER BY leaves ties unordered.
RECURSIVE Orderings(_)
Orderings(S) ==
    IF S = {} THEN { << >> }
    ELSE UNION { { << x >> \o s : s \in Orderings(S \ {x}) } :
                 x \in { y \in S : \A z \in S :
                            y.nextExecutionAt <= z.nextExecutionAt } }

Min(a, b) == IF a < b THEN a ELSE b

\* The outcomes of MemoryScheduledItemStore.GetNextScheduledItems: the slice
\* expression itemsDue[startIndex:endIndex] panics when startIndex > endIndex.
MemoryGetNextScheduledItems(its, t, limit, offset) ==
    IF \E i \in DOMAIN its : its[i].nextExecutionAt = NilInstant
    THEN { [status |-> "panic", items |-> << >>] }
    ELSE
    { IF offset > Len(s)
      THEN [status |-> "panic", items |-> << >>]
      ELSE [status |-> "ok",
            items |-> SubSeq(s, offset + 1, Min(offset + limit, Len(s)))] :
      s \in Orderings(DueMemory(its, t)) }

\* The outcomes of PostgresScheduledItemStore.GetNextScheduledItems: the rows
\* of LIMIT/OFFSET, or an error of the database with an empty slice.
PostgresGetNextScheduledItems(its, t, limit, offset) ==
    { [status |-> "ok",
       items |-> SubSeq(s, offset + 1, Min(offset + limit, Len(s)))] :
      s \in Orderings(DuePostgres(its, t)) }
    \cup { [status |-> "error", items |-> << >>] }

GetNextScheduledItems(b, its, t, limit, offset) ==
    IF b = "memory" THEN MemoryGetNextScheduledItems(its, t, limit, offset)
    ELSE PostgresGetNextScheduledItems(its, t, limit, offset)

\* Whether a call to the database itself goes through; the in-memory stores
\* have no failing call.
CallOutcomes(b, f) ==
    IF b = "postgres" /\ f < MaxFaults THEN {TRUE, FALSE} ELSE {TRUE}

Failed(f, dbOk) == IF dbOk THEN f ELSE f + 1

\* DeleteScheduledItem reporting a row removed that it leaves in place.
DeleteScheduledItemKeeps(its, id, dbOk) ==
    [items |-> its, ok |-> id \in DOMAIN its /\ dbOk]

\* DeleteScheduledItem: the store after the call, and the result.
DeleteScheduledItem(its, id, dbOk) ==
    IF id \in DOMAIN its /\ dbOk
    THEN [items |-> [i \in DOMAIN its \ {id} |-> its[i]], ok |-> TRUE]
    ELSE [items |-> its, ok |-> FALSE]

\* UpdateNextExecutionAt writing every row (an UPDATE without its WHERE).
UpdateNextExecutionAtAll(its, id, t, dbOk) ==
    IF id \in DOMAIN its /\ dbOk
    THEN [items |-> [i \in DOMAIN its |-> [its[i] EXCEPT !.nextExecutionAt = t]],
          ok |-> TRUE]
    ELSE [items |-> its, ok |-> FALSE]

\* UpdateNextExecutionAt replacing the row by one that starts at t.
UpdateNextExecutionAtReplace(its, id, t, dbOk) ==
    IF id \in DOMAIN its /\ dbOk
    THEN [items |-> [its EXCEPT ![id].nextExecutionAt = t, ![id].startsAt = t],
          ok |-> TRUE]
    ELSE [items |-> its, ok |-> FALSE]

\* UpdateNextExecutionAt storing a row for an id the store does not hold.
UpdateNextExecutionAtUpsert(its, id, t, dbOk) ==
    IF ~dbOk THEN [items |-> its, ok |-> FALSE]
    ELSE IF id \in DOMAIN its
    THEN [items |-> [its EXCEPT ![id].nextExecutionAt = t], ok |-> TRUE]
    ELSE [items |-> [i \in DOMAIN its \cup {id} |->
                       IF i = id
                       THEN [id |-> id, title |-> "T", description |-> "D",
                             startsAt |-> t, repeats |-> FALSE,
                             cronExpression |-> None, expiration |-> None,
                             nextExecutionAt |-> t]
                       ELSE its[i]],
          ok |-> TRUE]

\* UpdateNextExecutionAt: the store after the call, and the result.
UpdateNextExecutionAt(its, id, t, dbOk) ==
    IF id \in DOMAIN its /\ dbOk
    THEN [items |-> [its EXCEPT ![id].nextExecutionAt = t], ok |-> TRUE]
    ELSE [items |-> its, ok |-> FALSE]

\* ---------------------------------------------------- todo and log stores
\* CreateTodoItem: the row returned; the zero TodoItem when the insert fails.
CreateTodoItem(text, id, dbOk) ==
    IF dbOk THEN [id |-> id, text |-> text, checked |-> FALSE]
    ELSE [id |-> 0, text |-> "", checked |-> FALSE]

\* The status check of logExecution without its "error" case.
StatusValuesNoError == {"success", "skipped"}

StatusValues == {"success", "error", "skipped"}

\* logExecution writing a row for any arguments, an unknown status turned
\* into "error".
logExecutionCoerce(scheduledItemID, status, errorMessage, todoItemID, t) ==
    Some([scheduledItemId |-> scheduledItemID, executedAt |-> t,
          status |-> IF status \in {"success", "error", "skipped"}
                     THEN status ELSE "error",
          errorMessage |-> errorMessage, todoItemId |-> todoItemID])

\* logExecution leaving the todo id out of the row.
logExecutionNoTodo(scheduledItemID, status, errorMessage, todoItemID, t) ==
    IF scheduledItemID <= 0 THEN None
    ELSE IF status \notin StatusValues THEN None
    ELSE Some([scheduledItemId |-> scheduledItemID, executedAt |-> t,
               status |-> status, errorMessage |-> errorMessage,
               todoItemId |-> None])

\* logExecution: the row handed to CreateExecutionLog, or nothing when the
\* arguments are rejected.
logExecution(scheduledItemID, status, errorMessage, todoItemID, t) ==
    IF scheduledItemID <= 0 THEN None
    ELSE IF status \notin StatusValues THEN None
    ELSE Some([scheduledItemId |-> scheduledItemID, executedAt |-> t,
               status |-> status, errorMessage |-> errorMessage,
               todoItemId |-> todoItemID])

\* CreateExecutionLog giving every row the first id.
CreateExecutionLogFirstId(row, id) ==
    [id |-> 1, scheduledItemId |-> row.scheduledItemId,
     executedAt |-> row.executedAt, status |-> row.status,
     errorMessage |-> row.errorMessage, todoItemId |-> row.todoItemId]

\* CreateExecutionLog: the row with its id.
CreateExecutionLog(row, id) ==
    [id |-> id, scheduledItemId |-> row.scheduledItemId,
     executedAt |-> row.executedAt, status |-> row.status,
     errorMessage |-> row.errorMessage, todoItemId |-> row.todoItemId]

ErrorMsg == "Failed to create todo item"

\* ------------------------------------------------------- history records
\* A store call of the tick: the operation, the item id, the result the
\* caller saw, whether the database call went through, the clock read by
\* CalculateNextExecution before the call (0 for the other calls), the
\* instant passed, the log status and the todo id.
Call(op, id, ok, db, at, time, status, todo) ==
    [op |-> op, id |-> id, ok |-> ok, db |-> db, at |-> at, time |-> time,
     status |-> status, todo |-> todo]

\* ---------------------------------------------------------- the inputs
\* The items handed to CreateScheduledItem.  nextExecutionAt is the
\* caller's, as in the stores' tests and sample data.
Item(sa, rp, ce, ex, ne) ==
    [title |-> "T", description |-> "D", startsAt |-> sa, repeats |-> rp,
     cronExpression |-> ce, expiration |-> ex, nextExecutionAt |-> ne]

ItemInputs ==
    { Item(0, FALSE, None, None, 0),                \* one-time, due
      Item(90, FALSE, None, None, 0),               \* one-time, due before its start
      Item(60, FALSE, None, Some(60), 60),          \* one-time, due at its expiration
      Item(0, TRUE, Some(EveryMinute), None, 0),    \* every minute, due
      Item(0, TRUE, Some(EveryMinute), Some(60), 0),\* every minute until 60
      Item(90, TRUE, Some(EveryMinute), None, 0),   \* every minute, starting at 90
      Item(0, TRUE, Some(EveryTwoMin), None, 60),   \* every 2 minutes, due at 60
      Item(0, TRUE, None, None, 0),                 \* repeating, no expression
      Item(0, TRUE, Some("bad"), None, 0) }         \* repeating, unparsable

\* --------------------------------------------------------- environment
\* ticker.C (capacity 1) after an interval has passed: the ticker of a
\* running scheduler has sent a tick, or dropped it on a full channel.
TickerAfter(p, c) == IF p \in {"start", "stopped"} THEN c ELSE TRUE

\* Time passes by the scheduler's interval.
AdvanceClock ==
    /\ now < MaxTime * (Minute \div 2)
    /\ now' = now + (Minute \div 2)
    /\ tickerC' = TickerAfter(pc, tickerC)
    /\ UNCHANGED << backend, storeVars, todoVars, logVars, loopVars, sigChan,
                    histVars, apiDeleted, apiCreated, faults, query, unitVars, other, mem >>

\* The item as CreateScheduledItem stores it: the caller's fields and the
\* id the store assigns.
Stored(id, in) ==
    [id |-> id, title |-> in.title, description |-> in.description,
     startsAt |-> in.startsAt, repeats |-> in.repeats,
     cronExpression |-> in.cronExpression, expiration |-> in.expiration,
     nextExecutionAt |-> in.nextExecutionAt]

\* CreateScheduledItem of either store, called with an item of the inputs.
CreateScheduledItem ==
    /\ nextID <= MaxItems
    /\ \E in \in ItemInputs :
         items' = [i \in DOMAIN items \cup {nextID} |->
                     IF i = nextID THEN Stored(nextID, in) ELSE items[i]]
    /\ nextID' = nextID + 1
    /\ UNCHANGED << now, backend, todoVars, logVars, loopVars, sigChan, tickerC,
                    histVars, apiDeleted, apiCreated, faults, query, unitVars, other, mem >>

\* The bodies of POST /scheduled-items: the fields the caller chooses.
ApiInputs ==
    { Item(0, FALSE, None, None, 0),
      Item(60, FALSE, None, None, 0),
      Item(0, TRUE, Some(EveryMinute), None, 0),
      Item(0, TRUE, Some(EveryTwoMin), Some(60), 0),
      Item(0, TRUE, Some("bad"), None, 0) }

\* A handler that schedules an item that does not repeat at its start
\* instant, in the past or not.
HandlerNextStartsAt(in, t) ==
    IF in.repeats
    THEN CalculateNextExecution(in.startsAt, in.repeats, in.cronExpression,
                                in.expiration, t)
    ELSE Some(in.startsAt)

\* HandleCreateScheduledItem: the nextExecutionAt it hands to the store.
HandlerNext(in, t) ==
    CalculateNextExecution(in.startsAt, in.repeats, in.cronExpression,
                           in.expiration, t)

\* Whether CreateScheduledItem stores the row: the in-memory store always,
\* the database unless the call fails or next_execution_at, NOT NULL, is
\* given NULL.
InsertAccepted(b, next, dbOk) ==
    IF b = "postgres" THEN dbOk /\ next # None ELSE TRUE

\* HandleCreateScheduledItem: POST /scheduled-items.
HandleCreateScheduledItem ==
    /\ nextID <= MaxItems
    /\ \E in \in ApiInputs : \E dbOk \in CallOutcomes(backend, faults) :
         LET next == HandlerNext(in, now)
             item == [in EXCEPT !.nextExecutionAt =
                        IF next = None THEN NilInstant ELSE next[1]]
             ok == InsertAccepted(backend, next, dbOk) IN
         /\ faults' = Failed(faults, dbOk)
         /\ items' = IF ok
                      THEN [i \in DOMAIN items \cup {nextID} |->
                              IF i = nextID THEN Stored(nextID, item)
                              ELSE items[i]]
                      ELSE items
         /\ apiCreated' = Append(apiCreated,
                [id |-> nextID, at |-> now, startsAt |-> in.startsAt,
                 repeats |-> in.repeats, next |-> next, stored |-> ok])
    /\ nextID' = nextID + 1
    /\ UNCHANGED << now, backend, todoVars, logVars, loopVars, sigChan,
                    tickerC, histVars, apiDeleted, query, unitVars, other, mem >>

\* HandleDeleteScheduledItem: DELETE /scheduled-items/{id} of a stored item.
HandleDeleteScheduledItem ==
    /\ \E id \in DOMAIN items : \E dbOk \in CallOutcomes(backend, faults) :
         LET r == DeleteScheduledItem(items, id, dbOk) IN
         /\ faults' = Failed(faults, dbOk)
         /\ items' = r.items
         /\ apiDeleted' = IF r.ok THEN apiDeleted \cup {id} ELSE apiDeleted
    /\ UNCHANGED << now, backend, nextID, todoVars, logVars, loopVars, sigChan, tickerC,
                    histVars, apiCreated, query, unitVars, other, mem >>

\* SIGINT or SIGTERM is delivered to sigChan (capacity 1).  The history
\* records where the loop was when the signal arrived.
Signal ==
    /\ ~sigChan
    /\ pc # "stopped"
    /\ sigChan' = TRUE
    /\ trace' = Append(trace, Call("Signal", 0, TRUE, TRUE, 0, None, pc, 0))
    /\ UNCHANGED << tickerC, now, backend, storeVars, todoVars, logVars,
                    loopVars, base, retry, apiDeleted, apiCreated, faults, query,
                    unitVars, other, mem >>

\* ------------------------------------------------------- the scheduler
\* processScheduledItems calling GetNextScheduledItems again after an error.
AfterFetchRetry(status, n) ==
    IF status = "panic" THEN "crashed"
    ELSE IF status = "error" THEN "fetch"
    ELSE IF n = 0 THEN "select"
    ELSE "create"

\* processScheduledItems without its return on an empty batch.
AfterFetchNoEmptyReturn(status, n) ==
    IF status = "panic" THEN "crashed"
    ELSE IF status = "error" THEN "select"
    ELSE "create"

\* processScheduledItems after the fetch: return on an error, return on an
\* empty batch, otherwise enter the range loop.
AfterFetch(status, n) ==
    IF status = "panic" THEN "crashed"
    ELSE IF status = "error" THEN "select"
    ELSE IF n = 0 THEN "select"
    ELSE "create"

\* updateProcessedScheduledItem without the Delete of the one-time item.
AfterTodoNoDelete(todoID, item) ==
    IF todoID > 0 THEN "next" ELSE "log"

\* processScheduledItems returning when a todo cannot be created.
AfterTodoAbort(todoID, item) ==
    IF todoID > 0 THEN (IF ~item.repeats THEN "delete" ELSE "next")
    ELSE "select"

\* processScheduledItems reconciling the item whatever CreateTodoItem returned.
AfterTodoReconcile(todoID, item) ==
    IF ~item.repeats THEN "delete" ELSE "next"

\* processScheduledItems after CreateTodoItem: reconcile the item when the
\* todo has an id, log the error otherwise.  updateProcessedScheduledItem
\* begins with a Delete for an item that does not repeat.
AfterTodo(todoID, item) ==
    IF todoID > 0 THEN (IF ~item.repeats THEN "delete" ELSE "next")
    ELSE "log"

\* updateProcessedScheduledItem keeping an item that has no next execution.
ReconcileCallKeep(item, t) ==
    LET nextExec == CalculateNextExecution(item.startsAt, item.repeats,
                        item.cronExpression, item.expiration, t) IN
    IF nextExec # None THEN [op |-> "UpdateNext", time |-> nextExec]
    ELSE [op |-> "UpdateNext", time |-> Some(item.nextExecutionAt)]

\* updateProcessedScheduledItem rescheduling one interval after the clock.
ReconcileCallInterval(item, t) ==
    [op |-> "UpdateNext", time |-> Some(t + (Minute \div 2))]

\* updateProcessedScheduledItem rescheduling a repeating item at the clock.
ReconcileCallAtClock(item, t) ==
    IF item.repeats THEN [op |-> "UpdateNext", time |-> Some(t)]
    ELSE [op |-> "DeleteExpired", time |-> None]

\* updateProcessedScheduledItem from the call of CalculateNextExecution on,
\* which an item that does not repeat reaches as well: the store call made.
ReconcileCall(item, t) ==
    LET nextExec == CalculateNextExecution(item.startsAt, item.repeats,
                        item.cronExpression, item.expiration, t) IN
    IF nextExec # None THEN [op |-> "UpdateNext", time |-> nextExec]
    ELSE [op |-> "DeleteExpired", time |-> None]

\* The range loop after an item: the next item, or the end of the tick.
AfterItem(i, n) == IF i < n THEN "create" ELSE "select"

\* processScheduledItems started for every tick of the ticker, whatever the
\* loop is doing.
TickDueAnytime(p, ready) == p = "start" \/ (p # "stopped" /\ ready)

\* main calling processScheduledItems before the loop only.
TickDueOnce(p, ready) == p = "start"

\* main calls processScheduledItems before the loop, and in the loop when
\* the select receives from ticker.C.
TickDue(p, ready) == p = "start" \/ (p = "select" /\ ready)

\* main: the initial call of processScheduledItems, and the ticker case of
\* the select.
StartTick(n) ==
    /\ TickDue(pc, tickerC)
    /\ tickerC' = IF pc = "start" THEN tickerC ELSE FALSE
    /\ pc' = "fetch"
    /\ ticks' = n
    /\ batch' = << >>
    /\ idx' = 0
    /\ createdTodo' = 0
    /\ successCount' = 0
    /\ errorCount' = 0
    /\ trace' = << >>
    /\ UNCHANGED base
    /\ retry' = { trace[k].id : k \in { j \in DOMAIN trace :
                      trace[j].op = "CreateTodo" /\ ~trace[j].ok } }
    /\ UNCHANGED << now, backend, storeVars, todoVars, logVars, sigChan,
                    apiDeleted, apiCreated, faults, query, unitVars, other, mem >>

\* One of the first MaxTicks ticks, which the model counts.
TickStart == ticks < MaxTicks /\ StartTick(ticks + 1)

\* A tick after the first MaxTicks: the loop has no last tick.
TickStartAgain == ticks = MaxTicks /\ StartTick(ticks)

\* Time passes beyond the last instant of the model: the ticker of a running
\* scheduler goes on sending ticks.
TickerKeepsFiring ==
    /\ now = MaxTime * (Minute \div 2)
    /\ tickerC' = TickerAfter(pc, tickerC)
    /\ tickerC' # tickerC
    /\ UNCHANGED << now, backend, storeVars, todoVars, logVars, loopVars, sigChan,
                    histVars, apiDeleted, apiCreated, faults, query, unitVars, other, mem >>

\* A select that takes the ticker case when both cases are ready.
SelectTickerFirst(p) == p = "select" /\ ~tickerC

\* main returning on a signal wherever the loop is.
SelectInterrupted(p) == p \notin {"start", "stopped"}

\* main receives from sigChan only in the select of the service loop.
SelectWaits(p) == p = "select"

\* main: the sigChan case of the select.
Shutdown ==
    /\ SelectWaits(pc)
    /\ sigChan
    /\ pc' = "stopped"
    /\ sigChan' = FALSE
    /\ UNCHANGED << tickerC, now, backend, storeVars, todoVars, logVars, ticks, batch,
                    idx, createdTodo, successCount, errorCount, histVars,
                    apiDeleted, apiCreated, faults, query, unitVars, other, mem >>

\* processScheduledItems: store.GetNextScheduledItems(limit, 0) and what
\* follows the fetch.
Fetch(limit) ==
    /\ pc = "fetch"
    /\ \E r \in GetNextScheduledItems(backend, items, now, limit, 0) :
         /\ r.status = "error" => faults < MaxFaults
         /\ faults' = Failed(faults, r.status # "error")
         /\ batch' = r.items
         /\ pc' = AfterFetch(r.status, Len(r.items))
         /\ trace' = Append(trace, Call("GetNext", 0, r.status = "ok",
                                r.status # "error", 0, None, r.status, 0))
         /\ base' = [todos |-> Len(todos), logs |-> Len(logs),
                     items |-> items, at |-> now]
    /\ idx' = 1
    /\ UNCHANGED << now, backend, storeVars, todoVars, logVars, sigChan, tickerC, ticks,
                    createdTodo, successCount, errorCount, retry,
                    apiDeleted, apiCreated, query, unitVars, other, mem >>

\* processScheduledItems: store.GetNextScheduledItems(100, 0).
FetchDue == Fetch(BatchLimit)

\* The fetch with the limit scaled to the stores of the model: ScaledLimit
\* stands to MaxItems as the 100 of the code to a store of more than 100
\* due items.
FetchDueScaled == Fetch(ScaledLimit)

\* processScheduledItems: todoStore.CreateTodoItem for the current item.
CreateTodo ==
    /\ pc = "create"
    /\ LET item == batch[idx] IN
       \E dbOk \in CallOutcomes(backend, faults) :
         LET created == CreateTodoItem(createTodoText(item), todoNextID, dbOk) IN
         /\ faults' = Failed(faults, dbOk)
         /\ todos' = IF dbOk THEN Append(todos, created) ELSE todos
         /\ todoNextID' = IF dbOk THEN todoNextID + 1 ELSE todoNextID
         /\ createdTodo' = created.id
         /\ successCount' = IF created.id > 0 THEN successCount + 1
                            ELSE successCount
         /\ errorCount' = IF created.id > 0 THEN errorCount ELSE errorCount + 1
         /\ pc' = AfterTodo(created.id, item)
         /\ trace' = Append(trace, Call("CreateTodo", item.id, created.id > 0,
                                        dbOk, 0, None, "", created.id))
    /\ UNCHANGED << now, backend, storeVars, logVars, sigChan, tickerC, ticks, batch,
                    idx, base, retry, apiDeleted, apiCreated, query, unitVars, other, mem >>

\* updateProcessedScheduledItem: the Delete of an item that does not repeat.
ReconcileDelete ==
    /\ pc = "delete"
    /\ LET item == batch[idx] IN
       \E dbOk \in CallOutcomes(backend, faults) :
         LET r == DeleteScheduledItem(items, item.id, dbOk) IN
         /\ faults' = Failed(faults, dbOk)
         /\ items' = r.items
         /\ trace' = Append(trace, Call("DeleteCompleted", item.id, r.ok, dbOk, 0,
                                        None, "", 0))
    /\ pc' = "next"
    /\ UNCHANGED << now, backend, nextID, todoVars, logVars, sigChan, tickerC, ticks,
                    batch, idx, createdTodo, successCount, errorCount, base,
                    retry, apiDeleted, apiCreated, query, unitVars, other, mem >>

\* updateProcessedScheduledItem: CalculateNextExecution and the call it
\* leads to, UpdateNextExecutionAt or DeleteScheduledItem.
ReconcileNext ==
    /\ pc = "next"
    /\ LET item == batch[idx]
           call == ReconcileCall(item, now) IN
       \E dbOk \in CallOutcomes(backend, faults) :
         LET r == IF call.op = "UpdateNext"
                  THEN UpdateNextExecutionAt(items, item.id, call.time[1], dbOk)
                  ELSE DeleteScheduledItem(items, item.id, dbOk) IN
         /\ faults' = Failed(faults, dbOk)
         /\ items' = r.items
         /\ trace' = Append(trace, Call(call.op, item.id, r.ok, dbOk, now,
                                        call.time, "", 0))
    /\ pc' = "log"
    /\ UNCHANGED << now, backend, nextID, todoVars, logVars, sigChan, tickerC, ticks,
                    batch, idx, createdTodo, successCount, errorCount, base,
                    retry, apiDeleted, apiCreated, query, unitVars, other, mem >>

\* processScheduledItems: logExecution for the current item, then the next
\* item of the range loop.
LogExecution ==
    /\ pc = "log"
    /\ LET item == batch[idx]
           row == IF createdTodo > 0
                  THEN logExecution(item.id, "success", None, Some(createdTodo), now)
                  ELSE logExecution(item.id, "error", Some(ErrorMsg), None, now) IN
       \E dbOk \in CallOutcomes(backend, faults) :
         LET stored == row # None /\ dbOk IN
         /\ faults' = Failed(faults, dbOk)
         /\ logs' = IF stored THEN Append(logs, CreateExecutionLog(row[1], logNextID))
                    ELSE logs
         /\ logNextID' = IF stored THEN logNextID + 1 ELSE logNextID
         /\ trace' = Append(trace, Call("CreateLog", item.id, stored, dbOk,
                               0, None,
                               IF createdTodo > 0 THEN "success" ELSE "error",
                               createdTodo))
    /\ pc' = AfterItem(idx, Len(batch))
    /\ idx' = idx + 1
    /\ UNCHANGED << now, backend, storeVars, todoVars, sigChan, tickerC, ticks, batch,
                    createdTodo, successCount, errorCount, base, retry,
                    apiDeleted, apiCreated, query, unitVars, other, mem >>

\* No second scheduler process.
NoLoop == [pc |-> "off", batch |-> << >>, idx |-> 0, createdTodo |-> 0,
           created |-> {}]

Procs == 1 .. MaxProcs

\* NewMemoryScheduledItemStore: an empty map, nextID 1, the lock free; no
\* goroutine is in a call.
NewMemoryStore ==
    [items |-> << >>, nextID |-> 1, lock |-> 0,
     procs |-> [p \in Procs |-> [pc |-> "idle", id |-> 0, token |-> 0]],
     calls |-> 0, returned |-> {}, deleted |-> {}, assigned |-> << >>]

\* ------------------------------------------- a second scheduler process
\* A second scheduler process is started on the same database and reaches
\* the initial call of processScheduledItems.
OtherStart ==
    /\ other.pc = "off"
    /\ other' = [other EXCEPT !.pc = "fetch"]
    /\ UNCHANGED << now, backend, storeVars, todoVars, logVars, loopVars, sigChan,
                    tickerC, histVars, apiDeleted, apiCreated, faults, query,
                    unitVars, mem >>

\* processScheduledItems of the second process: the fetch.
OtherFetch ==
    /\ other.pc = "fetch"
    /\ \E r \in GetNextScheduledItems(backend, items, now, BatchLimit, 0) :
         /\ r.status = "ok"
         /\ other' = [other EXCEPT !.batch = r.items, !.idx = 1,
                                   !.pc = AfterFetch(r.status, Len(r.items))]
    /\ UNCHANGED << now, backend, storeVars, todoVars, logVars, loopVars, sigChan,
                    tickerC, histVars, apiDeleted, apiCreated, faults, query,
                    unitVars, mem >>

\* processScheduledItems of the second process: CreateTodoItem.
OtherCreateTodo ==
    /\ other.pc = "create"
    /\ LET item == other.batch[other.idx]
           created == CreateTodoItem(createTodoText(item), todoNextID, TRUE) IN
       /\ todos' = Append(todos, created)
       /\ todoNextID' = todoNextID + 1
       /\ other' = [other EXCEPT !.createdTodo = created.id,
                                 !.created = @ \cup {item.id},
                                 !.pc = AfterTodo(created.id, item)]
    /\ UNCHANGED << now, backend, storeVars, logVars, loopVars, sigChan,
                    tickerC, histVars, apiDeleted, apiCreated, faults, query,
                    unitVars, mem >>

\* updateProcessedScheduledItem of the second process: the Delete of an
\* item that does not repeat.
OtherReconcileDelete ==
    /\ other.pc = "delete"
    /\ items' = DeleteScheduledItem(items, other.batch[other.idx].id, TRUE).items
    /\ other' = [other EXCEPT !.pc = "next"]
    /\ UNCHANGED << now, backend, nextID, todoVars, logVars, loopVars, sigChan,
                    tickerC, histVars, apiDeleted, apiCreated, faults, query,
                    unitVars, mem >>

\* updateProcessedScheduledItem of the second process: CalculateNextExecution
\* and the call it leads to.
OtherReconcileNext ==
    /\ other.pc = "next"
    /\ LET item == other.batch[other.idx]
           call == ReconcileCall(item, now) IN
       items' = IF call.op = "UpdateNext"
                THEN UpdateNextExecutionAt(items, item.id, call.time[1], TRUE).items
                ELSE DeleteScheduledItem(items, item.id, TRUE).items
    /\ other' = [other EXCEPT !.pc = "log"]
    /\ UNCHANGED << now, backend, nextID, todoVars, logVars, loopVars, sigChan,
                    tickerC, histVars, apiDeleted, apiCreated, faults, query,
                    unitVars, mem >>

\* processScheduledItems of the second process: logExecution, then the next
\* item.
OtherLogExecution ==
    /\ other.pc = "log"
    /\ LET item == other.batch[other.idx]
           row == IF other.createdTodo > 0
                  THEN logExecution(item.id, "success", None,
                                    Some(other.createdTodo), now)
                  ELSE logExecution(item.id, "error", Some(ErrorMsg), None, now) IN
       /\ logs' = IF row # None
                  THEN Append(logs, CreateExecutionLog(row[1], logNextID))
                  ELSE logs
       /\ logNextID' = IF row # None THEN logNextID + 1 ELSE logNextID
    /\ other' = [other EXCEPT !.pc = AfterItem(other.idx, Len(other.batch)),
                              !.idx = @ + 1]
    /\ UNCHANGED << now, backend, storeVars, todoVars, loopVars, sigChan,
                    tickerC, histVars, apiDeleted, apiCreated, faults, query,
                    unitVars, mem >>

\* ------------------- the in-memory item store called concurrently
restVars == << now, backend, storeVars, todoVars, logVars, loopVars, sigChan,
               tickerC, histVars, apiDeleted, apiCreated, faults, query,
               unitVars, other >>

\* A goroutine in a call of the store.
Proc(p) == mem.procs[p]

\* s.Lock() entered although another goroutine holds the lock.
LockNotHeld(m) == TRUE

\* s.Lock() returns when no goroutine holds the lock.
LockFree(m) == m.lock = 0

\* A goroutine calls CreateScheduledItem with an item of its own, or
\* DeleteScheduledItem with some id.
MemCall ==
    /\ mem.calls < MaxCalls
    /\ \E p \in Procs :
         /\ Proc(p).pc = "idle"
         /\ \/ mem' = [mem EXCEPT !.calls = @ + 1,
                                   !.procs[p] = [pc |-> "create", id |-> 0,
                                                 token |-> mem.calls + 1]]
            \/ \E id \in 1 .. MaxCalls :
                 mem' = [mem EXCEPT !.calls = @ + 1,
                                    !.procs[p] = [pc |-> "delete", id |-> id,
                                                  token |-> 0]]
    /\ UNCHANGED restVars

\* s.Lock() of either call.
MemLock ==
    /\ \E p \in Procs :
         /\ Proc(p).pc \in {"create", "delete"}
         /\ LockFree(mem)
         /\ mem' = [mem EXCEPT !.lock = p,
                               !.procs[p].pc = IF Proc(p).pc = "create"
                                               THEN "assign" ELSE "remove"]
    /\ UNCHANGED restVars

\* CreateScheduledItem: item.ID = s.nextID.
MemAssign ==
    /\ \E p \in Procs :
         /\ Proc(p).pc = "assign"
         /\ mem' = [mem EXCEPT !.procs[p].id = mem.nextID,
                               !.procs[p].pc = "increment",
                               !.assigned = Append(@, mem.nextID)]
    /\ UNCHANGED restVars

\* CreateScheduledItem: s.nextID++.
MemIncrement ==
    /\ \E p \in Procs :
         /\ Proc(p).pc = "increment"
         /\ mem' = [mem EXCEPT !.nextID = @ + 1, !.procs[p].pc = "store"]
    /\ UNCHANGED restVars

\* CreateScheduledItem: s.items[item.ID] = item.
MemStore ==
    /\ \E p \in Procs :
         /\ Proc(p).pc = "store"
         /\ mem' = [mem EXCEPT
                      !.items = [i \in DOMAIN mem.items \cup {Proc(p).id} |->
                                   IF i = Proc(p).id THEN Proc(p).token
                                   ELSE mem.items[i]],
                      !.procs[p].pc = "unlock"]
    /\ UNCHANGED restVars

\* DeleteScheduledItem: the lookup, and delete(s.items, id) when it is there.
MemRemove ==
    /\ \E p \in Procs :
         /\ Proc(p).pc = "remove"
         /\ mem' = IF Proc(p).id \in DOMAIN mem.items
                   THEN [mem EXCEPT
                          !.items = [i \in DOMAIN mem.items \ {Proc(p).id} |->
                                       mem.items[i]],
                          !.deleted = @ \cup {Proc(p).id},
                          !.procs[p].pc = "unlock"]
                   ELSE [mem EXCEPT !.procs[p].pc = "unlock"]
    /\ UNCHANGED restVars

\* The deferred s.Unlock() and the return of the call.
MemUnlock ==
    /\ \E p \in Procs :
         /\ Proc(p).pc = "unlock"
         /\ mem' = [mem EXCEPT
                      !.lock = IF @ = p THEN 0 ELSE @,
                      !.returned = IF Proc(p).token > 0
                                   THEN @ \cup {[id |-> Proc(p).id,
                                                 token |-> Proc(p).token]}
                                   ELSE @,
                      !.procs[p] = [pc |-> "idle", id |-> 0, token |-> 0]]
    /\ UNCHANGED restVars

\* ------------------------------------------------------ specification
NoQuery == [at |-> 0, limit |-> 0, offset |-> 0, items |-> << >>,
            memory |-> [status |-> "ok", items |-> << >>],
            postgres |-> [status |-> "ok", items |-> << >>]]

\* No call of CalculateNextExecution or of logExecution made on its own.
NoCalc == [startsAt |-> 0, repeats |-> FALSE, cronExpression |-> None,
           expiration |-> None, now |-> 0, done |-> FALSE, result |-> None]

NoLogCall == [scheduledItemID |-> 0, status |-> "", errorMessage |-> None,
              todoItemID |-> None, done |-> FALSE, db |-> TRUE,
              before |-> << >>]

Init ==
    /\ now = 0
    /\ backend \in {"memory", "postgres"}
    /\ items = << >>
    /\ nextID = 1
    /\ todos = << >>
    /\ todoNextID = 1
    /\ logs = << >>
    /\ logNextID = 1
    /\ pc = "start"
    /\ sigChan = FALSE
    /\ tickerC = FALSE
    /\ ticks = 0
    /\ batch = << >>
    /\ idx = 0
    /\ createdTodo = 0
    /\ successCount = 0
    /\ errorCount = 0
    /\ trace = << >>
    /\ base = [todos |-> 0, logs |-> 0, items |-> << >>, at |-> 0]
    /\ retry = {}
    /\ apiDeleted = {}
    /\ apiCreated = << >>
    /\ faults = 0
    /\ query = NoQuery
    /\ calc = NoCalc
    /\ logCall = NoLogCall
    /\ other = NoLoop
    /\ mem = NewMemoryStore

Next ==
    \/ AdvanceClock
    \/ CreateScheduledItem
    \/ TickStart
    \/ FetchDue
    \/ CreateTodo
    \/ ReconcileDelete
    \/ ReconcileNext
    \/ LogExecution

Spec == Init /\ [][Next]_vars

\* ------------------------------ specification of the API and the loop
NextApi ==
    \/ AdvanceClock
    \/ HandleCreateScheduledItem
    \/ TickStart
    \/ FetchDue
    \/ CreateTodo
    \/ ReconcileDelete
    \/ ReconcileNext
    \/ LogExecution

SpecApi == Init /\ [][NextApi]_vars

\* ------------------- specification of the loop with a binding limit
\* The items stored when the scheduler starts.
BatchInputs ==
    { Item(0, FALSE, None, None, 0),
      Item(0, FALSE, None, None, 30),
      Item(0, TRUE, Some(EveryMinute), None, 0),
      Item(0, FALSE, None, Some(30), 0) }

\* The scheduler about to start on a store of up to MaxItems items.
Preloaded(inputs) ==
    /\ now = 0
    /\ \E n \in 0 .. MaxItems : \E f \in [1 .. n -> inputs] :
         /\ items = [i \in 1 .. n |-> Stored(i, f[i])]
         /\ nextID = n + 1
    /\ todos = << >>
    /\ todoNextID = 1
    /\ logs = << >>
    /\ logNextID = 1
    /\ pc = "start"
    /\ sigChan = FALSE
    /\ tickerC = FALSE
    /\ ticks = 0
    /\ batch = << >>
    /\ idx = 0
    /\ createdTodo = 0
    /\ successCount = 0
    /\ errorCount = 0
    /\ trace = << >>
    /\ base = [todos |-> 0, logs |-> 0, items |-> << >>, at |-> 0]
    /\ retry = {}
    /\ apiDeleted = {}
    /\ apiCreated = << >>
    /\ query = NoQuery
    /\ calc = NoCalc
    /\ logCall = NoLogCall
    /\ other = NoLoop
    /\ mem = NewMemoryStore

InitBatch ==
    /\ backend \in {"memory", "postgres"}
    /\ faults = 0
    /\ Preloaded(BatchInputs)

NextBatch ==
    \/ AdvanceClock
    \/ TickStart
    \/ FetchDueScaled
    \/ CreateTodo
    \/ ReconcileDelete
    \/ ReconcileNext
    \/ LogExecution

SpecBatch == InitBatch /\ [][NextBatch]_vars

\* ------------- specification of the loop with the API deleting items
\* The items stored when the scheduler starts.
DeleteInputs ==
    { Item(0, FALSE, None, None, 0),
      Item(90, FALSE, None, None, 0),
      Item(0, TRUE, Some(EveryMinute), None, 0) }

InitDelete ==
    /\ backend \in {"memory", "postgres"}
    /\ faults = MaxFaults - 1
    /\ Preloaded(DeleteInputs)

NextDelete ==
    \/ AdvanceClock
    \/ CreateScheduledItem
    \/ HandleDeleteScheduledItem
    \/ TickStart
    \/ FetchDue
    \/ CreateTodo
    \/ ReconcileDelete
    \/ ReconcileNext
    \/ LogExecution

SpecDelete == InitDelete /\ [][NextDelete]_vars

\* ------------------------- specification of the loop with its signals
\* The items stored when the scheduler starts.
LoopInputs ==
    { Item(0, FALSE, None, None, 0),
      [Item(0, FALSE, None, None, 0) EXCEPT !.description = ""],
      Item(0, TRUE, Some(EveryMinute), None, 0),
      Item(0, TRUE, Some(EveryMinute), Some(60), 0),
      Item(0, TRUE, Some(EveryTwoMin), None, 60) }

InitLoop ==
    /\ now = 0
    /\ backend \in {"memory", "postgres"}
    /\ \E n \in 0 .. MaxItems : \E f \in [1 .. n -> LoopInputs] :
         /\ items = [i \in 1 .. n |-> Stored(i, f[i])]
         /\ nextID = n + 1
    /\ todos = << >>
    /\ todoNextID = 1
    /\ logs = << >>
    /\ logNextID = 1
    /\ pc = "start"
    /\ sigChan = FALSE
    /\ tickerC = FALSE
    /\ ticks = 0
    /\ batch = << >>
    /\ idx = 0
    /\ createdTodo = 0
    /\ successCount = 0
    /\ errorCount = 0
    /\ trace = << >>
    /\ base = [todos |-> 0, logs |-> 0, items |-> << >>, at |-> 0]
    /\ retry = {}
    /\ apiDeleted = {}
    /\ apiCreated = << >>
    /\ faults = 0
    /\ query = NoQuery
    /\ calc = NoCalc
    /\ logCall = NoLogCall
    /\ other = NoLoop
    /\ mem = NewMemoryStore

NextLoop ==
    \/ AdvanceClock
    \/ Signal
    \/ TickStart
    \/ Shutdown
    \/ FetchDue
    \/ CreateTodo
    \/ ReconcileDelete
    \/ ReconcileNext
    \/ LogExecution

SpecLoop == InitLoop /\ [][NextLoop]_vars

\* ------------ specification of the loop that runs until it is signalled
\* The items stored when the scheduler starts.
StopInputs ==
    { Item(0, FALSE, None, None, 0),
      Item(0, TRUE, Some(EveryMinute), None, 0) }

InitStop ==
    /\ backend \in {"memory", "postgres"}
    /\ faults = MaxFaults - 1
    /\ Preloaded(StopInputs)

NextStop ==
    \/ AdvanceClock
    \/ TickerKeepsFiring
    \/ Signal
    \/ TickStart
    \/ TickStartAgain
    \/ Shutdown
    \/ FetchDue
    \/ CreateTodo
    \/ ReconcileDelete
    \/ ReconcileNext
    \/ LogExecution

\* A call of processScheduledItems runs to its return: every store call
\* returns.
TickSteps ==
    FetchDue \/ CreateTodo \/ ReconcileDelete \/ ReconcileNext \/ LogExecution

\* The select of main chooses among its ready cases by a uniform random
\* choice: a case that is ready again and again is taken.
FairStop ==
    /\ WF_vars(TickSteps)
    /\ WF_vars(TickStart \/ TickStartAgain)
    /\ SF_vars(Shutdown)

SpecStop == InitStop /\ [][NextStop]_vars /\ FairStop

\* ------- specification of the loop that is never signalled nor failed
\* The items stored when the scheduler starts.
LiveInputs ==
    { Item(0, FALSE, None, None, 0),
      Item(0, FALSE, None, None, 30),
      Item(0, TRUE, Some(EveryMinute), None, 0),
      Item(0, FALSE, None, Some(30), 0) }

\* No call fails: the database faults of the model are used up.
InitLive ==
    /\ backend \in {"memory", "postgres"}
    /\ faults = MaxFaults
    /\ Preloaded(LiveInputs)

NextLive ==
    \/ AdvanceClock
    \/ TickerKeepsFiring
    \/ TickStart
    \/ TickStartAgain
    \/ FetchDueScaled
    \/ CreateTodo
    \/ ReconcileDelete
    \/ ReconcileNext
    \/ LogExecution

\* A call of processScheduledItems with the scaled limit runs to its return.
TickStepsScaled ==
    FetchDueScaled \/ CreateTodo \/ ReconcileDelete \/ ReconcileNext
      \/ LogExecution

\* Time passes and the ticker keeps sending; the select, with no signal to
\* take, receives a tick that is ready; processScheduledItems returns.
FairLive ==
    /\ WF_vars(AdvanceClock \/ TickerKeepsFiring)
    /\ WF_vars(TickStart \/ TickStartAgain)
    /\ WF_vars(TickStepsScaled)

SpecLive == InitLive /\ [][NextLive]_vars /\ FairLive

\* ------------- specification of two scheduler processes on one database
\* The items stored when the schedulers start.
TwoInputs ==
    { Item(0, FALSE, None, None, 0),
      Item(0, TRUE, Some(EveryMinute), None, 0) }

\* Two processes share a store only when it is the database.  No call
\* fails.
InitTwo ==
    /\ backend = "postgres"
    /\ faults = MaxFaults
    /\ Preloaded(TwoInputs)

NextTwo ==
    \/ AdvanceClock
    \/ TickStart
    \/ FetchDue
    \/ CreateTodo
    \/ ReconcileDelete
    \/ ReconcileNext
    \/ LogExecution
    \/ OtherStart
    \/ OtherFetch
    \/ OtherCreateTodo
    \/ OtherReconcileDelete
    \/ OtherReconcileNext
    \/ OtherLogExecution

SpecTwo == InitTwo /\ [][NextTwo]_vars

\* -------------------------------------- specification of the due query
\* The stores the query is run on: up to MaxQueryItems items created one after
\* the other, with every nextExecutionAt and expiration of the clock's range.
QueryInputs ==
    { Item(0, FALSE, None, ex, ne) :
      ex \in {None} \cup { Some(t) : t \in Instants }, ne \in Instants }

Limits == {1, 2, BatchLimit}
Offsets == 0 .. MaxQueryItems + 1

InitQuery ==
    /\ now \in Instants
    /\ backend = "memory"
    /\ \E n \in 0 .. MaxQueryItems : \E f \in [1 .. n -> QueryInputs] :
         /\ items = [i \in 1 .. n |-> Stored(i, f[i])]
         /\ nextID = n + 1
    /\ todos = << >>
    /\ todoNextID = 1
    /\ logs = << >>
    /\ logNextID = 1
    /\ pc = "start"
    /\ sigChan = FALSE
    /\ tickerC = FALSE
    /\ ticks = 0
    /\ batch = << >>
    /\ idx = 0
    /\ createdTodo = 0
    /\ successCount = 0
    /\ errorCount = 0
    /\ trace = << >>
    /\ base = [todos |-> 0, logs |-> 0, items |-> << >>, at |-> 0]
    /\ retry = {}
    /\ apiDeleted = {}
    /\ apiCreated = << >>
    /\ faults = 0
    /\ query = NoQuery
    /\ calc = NoCalc
    /\ logCall = NoLogCall
    /\ other = NoLoop
    /\ mem = NewMemoryStore

\* GetNextScheduledItems(limit, offset) of both stores, holding the same
\* items, at the same instant; one call in a run.
RunQuery ==
    /\ query = NoQuery
    /\ \E limit \in Limits, offset \in Offsets :
       \E m \in MemoryGetNextScheduledItems(items, now, limit, offset),
          p \in PostgresGetNextScheduledItems(items, now, limit, offset) :
         query' = [at |-> now, limit |-> limit, offset |-> offset,
                   items |-> items, memory |-> m, postgres |-> p]
    /\ UNCHANGED << now, backend, storeVars, todoVars, logVars, loopVars,
                    sigChan, tickerC, histVars, apiDeleted, apiCreated, faults, unitVars, other, mem >>

NextQuery == RunQuery

SpecQuery == InitQuery /\ [][NextQuery]_vars

\* ------------------------- specification of CalculateNextExecution alone
MaxCalcTime == 6

\* The instants of the arguments and of time.Now(): half minutes.
CalcInstants == { k * (Minute \div 2) : k \in 0 .. MaxCalcTime }

\* The cron expression arguments: absent, empty, two that parse, one that
\* does not.
CronInputs ==
    { None, Some(""), Some(EveryMinute), Some(EveryTwoMin), Some("bad") }

\* The scheduler and the stores at rest.
AtRest ==
    /\ items = << >>
    /\ nextID = 1
    /\ todos = << >>
    /\ todoNextID = 1
    /\ logNextID = Len(logs) + 1
    /\ pc = "start"
    /\ sigChan = FALSE
    /\ tickerC = FALSE
    /\ ticks = 0
    /\ batch = << >>
    /\ idx = 0
    /\ createdTodo = 0
    /\ successCount = 0
    /\ errorCount = 0
    /\ trace = << >>
    /\ base = [todos |-> 0, logs |-> 0, items |-> << >>, at |-> 0]
    /\ retry = {}
    /\ apiDeleted = {}
    /\ apiCreated = << >>
    /\ faults = 0
    /\ query = NoQuery

InitCalc ==
    /\ now \in CalcInstants
    /\ backend = "memory"
    /\ logs = << >>
    /\ AtRest
    /\ \E sa \in CalcInstants, rp \in BOOLEAN, ce \in CronInputs,
          ex \in {None} \cup { Some(t) : t \in CalcInstants } :
         calc = [startsAt |-> sa, repeats |-> rp, cronExpression |-> ce,
                 expiration |-> ex, now |-> now, done |-> FALSE,
                 result |-> None]
    /\ logCall = NoLogCall
    /\ other = NoLoop
    /\ mem = NewMemoryStore

\* CalculateNextExecution called with the arguments, time.Now() being now.
Calculate ==
    /\ ~calc.done
    /\ calc' = [calc EXCEPT
                  !.done = TRUE,
                  !.result = CalculateNextExecution(calc.startsAt, calc.repeats,
                                 calc.cronExpression, calc.expiration, calc.now)]
    /\ UNCHANGED << now, backend, storeVars, todoVars, logVars, loopVars,
                    sigChan, tickerC, histVars, apiDeleted, apiCreated, faults, query, logCall, other, mem >>

NextCalc == Calculate

SpecCalc == InitCalc /\ [][NextCalc]_vars

\* ------------------------------------ specification of logExecution alone
MaxPriorLogs == 1

\* The arguments of the calls: ids around 0, the three statuses and two
\* strings that are none of them.
LogIds == {-1, 0, 1, 2}
LogStatuses == {"success", "error", "skipped", "invalid_status", ""}

\* A row the log store holds before the call.
PriorLog(id) ==
    [id |-> id, scheduledItemId |-> 1, executedAt |-> 0, status |-> "success",
     errorMessage |-> None, todoItemId |-> Some(1)]

InitLog ==
    /\ now \in {0, Minute}
    /\ backend \in {"memory", "postgres"}
    /\ \E n \in 0 .. MaxPriorLogs : logs = [i \in 1 .. n |-> PriorLog(i)]
    /\ AtRest
    /\ calc = NoCalc
    /\ other = NoLoop
    /\ mem = NewMemoryStore
    /\ \E id \in LogIds, st \in LogStatuses,
          em \in {None, Some(ErrorMsg)}, td \in {None, Some(1)},
          db \in CallOutcomes(backend, 0) :
         logCall = [scheduledItemID |-> id, status |-> st, errorMessage |-> em,
                    todoItemID |-> td, done |-> FALSE, db |-> db,
                    before |-> logs]

\* logExecution called with the arguments; the insert of the relational
\* store goes through or fails (logCall.db).
CallLogExecution ==
    /\ ~logCall.done
    /\ LET row == logExecution(logCall.scheduledItemID, logCall.status,
                               logCall.errorMessage, logCall.todoItemID, now)
           stored == row # None /\ logCall.db IN
       /\ logs' = IF stored
                  THEN Append(logs, CreateExecutionLog(row[1], logNextID))
                  ELSE logs
       /\ logNextID' = IF stored THEN logNextID + 1 ELSE logNextID
    /\ logCall' = [logCall EXCEPT !.done = TRUE]
    /\ UNCHANGED << now, backend, storeVars, todoVars, loopVars, sigChan, tickerC,
                    histVars, apiDeleted, apiCreated, faults, query, calc, other, mem >>

NextLog == CallLogExecution

SpecLog == InitLog /\ [][NextLog]_vars

\* -------------- specification of the in-memory store under concurrency
InitIds ==
    /\ now = 0
    /\ backend = "memory"
    /\ logs = << >>
    /\ AtRest
    /\ calc = NoCalc
    /\ logCall = NoLogCall
    /\ other = NoLoop
    /\ mem = NewMemoryStore

NextIds ==
    \/ MemCall
    \/ MemLock
    \/ MemAssign
    \/ MemIncrement
    \/ MemStore
    \/ MemRemove
    \/ MemUnlock

SpecIds == InitIds /\ [][NextIds]_vars

\* ------------------------------------------------ reading the history
\* The tick has ended: the loop is back at its select (or has left it).
TickDone == pc \in {"select", "stopped"}

\* The tick's fetch returned a batch.
FetchOK == Len(trace) >= 1 /\ trace[1].op = "GetNext" /\ trace[1].ok

Entries(ops, id) ==
    { k \in DOMAIN trace : trace[k].op \in ops /\ trace[k].id = id }

TodoCreated(id) == \E k \in Entries({"CreateTodo"}, id) : trace[k].ok
TodoFailed(id) == \E k \in Entries({"CreateTodo"}, id) : ~trace[k].ok

ReconcileOps == {"UpdateNext", "DeleteExpired"}
WriteOps == {"UpdateNext", "DeleteExpired", "DeleteCompleted"}

BatchIds == { batch[k].id : k \in DOMAIN batch }

\* The rows the tick has added to the log store.
NewLogs == { j \in DOMAIN logs : j > base.logs }

\* The tick has changed no item that was stored at its fetch.
FetchedItemsKept ==
    \A id \in DOMAIN base.items :
        id \in DOMAIN items /\ items[id] = base.items[id]

\* ------------------------------------------------------------- claims

\* C1: a one-time (non-repeating) item of the batch whose todo was created
\* is gone from the store when the tick has ended, provided the database did
\* not fail the Delete issued for it.
C1_OneTimeItemDeleted ==
    TickDone =>
      \A k \in DOMAIN batch :
        ( /\ ~batch[k].repeats
          /\ TodoCreated(batch[k].id)
          /\ \A e \in Entries({"DeleteCompleted"}, batch[k].id) : trace[e].db )
        => batch[k].id \notin DOMAIN items

C1_Witness ==
    /\ TickDone
    /\ \E k \in DOMAIN batch :
         /\ ~batch[k].repeats
         /\ TodoCreated(batch[k].id)
         /\ \E e \in Entries({"DeleteCompleted"}, batch[k].id) : trace[e].ok
         /\ batch[k].id \in DOMAIN base.items
         /\ batch[k].id \notin DOMAIN items

\* C2: a repeating item of the batch whose todo was created and for which
\* CalculateNextExecution returned an instant that the store accepted is
\* still stored when the tick has ended, with nextExecutionAt strictly after
\* its value before the tick, strictly after the instant of the tick's fetch
\* and of the calculation, and with every other field as before.
C2_RepeatingItemRescheduled ==
    TickDone =>
      \A k \in DOMAIN batch :
        LET it == batch[k] IN
        ( /\ it.repeats
          /\ TodoCreated(it.id)
          /\ \E e \in Entries(ReconcileOps, it.id) :
               /\ trace[e].db
               /\ CalculateNextExecution(it.startsAt, it.repeats,
                      it.cronExpression, it.expiration, trace[e].at) # None )
        => /\ it.id \in DOMAIN items
           /\ items[it.id].nextExecutionAt > it.nextExecutionAt
           /\ items[it.id].nextExecutionAt > base.at
           /\ \A e \in Entries(ReconcileOps, it.id) :
                items[it.id].nextExecutionAt > trace[e].at
           /\ items[it.id] =
                [it EXCEPT !.nextExecutionAt = items[it.id].nextExecutionAt]

C2_Witness ==
    /\ TickDone
    /\ \E k \in DOMAIN batch :
         /\ batch[k].repeats
         /\ TodoCreated(batch[k].id)
         /\ \E e \in Entries({"UpdateNext"}, batch[k].id) : trace[e].ok
         /\ batch[k].id \in DOMAIN items
         /\ items[batch[k].id].nextExecutionAt > base.at

\* C3: a repeating item of the batch whose todo was created and for which
\* CalculateNextExecution returned none is deleted, not rescheduled: it is
\* gone from the store when the tick has ended (the database not failing
\* the call).
C3_RepeatingItemRetired ==
    TickDone =>
      \A k \in DOMAIN batch :
        LET it == batch[k] IN
        ( /\ it.repeats
          /\ TodoCreated(it.id)
          /\ \E e \in Entries(ReconcileOps, it.id) :
               /\ trace[e].db
               /\ CalculateNextExecution(it.startsAt, it.repeats,
                      it.cronExpression, it.expiration, trace[e].at) = None )
        => /\ it.id \notin DOMAIN items
           /\ Entries({"UpdateNext"}, it.id) = {}

\* The retired item has a schedule that parses: it is retired as expired.
C3_Witness ==
    /\ TickDone
    /\ \E k \in DOMAIN batch :
         /\ batch[k].repeats
         /\ batch[k].cronExpression = Some(EveryMinute)
         /\ batch[k].expiration # None
         /\ TodoCreated(batch[k].id)
         /\ \E e \in Entries({"DeleteExpired"}, batch[k].id) : trace[e].ok
         /\ batch[k].id \notin DOMAIN items

\* The error rows the tick has logged for an item: status error, a message
\* that is not empty, no todo id.
ErrorRows(id) ==
    { j \in NewLogs :
        /\ logs[j].scheduledItemId = id
        /\ logs[j].status = "error"
        /\ logs[j].errorMessage # None
        /\ logs[j].errorMessage # Some("")
        /\ logs[j].todoItemId = None }

\* What a failed todo creation leaves behind when the tick has ended: no
\* UpdateNextExecutionAt and no Delete for the item, the item stored as it
\* was fetched.
FailedItemKept(it) ==
    /\ Entries(WriteOps, it.id) = {}
    /\ it.id \in DOMAIN items
    /\ items[it.id] = it

C5_WholeBatchAttempted ==
    (TickDone /\ FetchOK) =>
      /\ \A k \in DOMAIN batch :
           Cardinality(Entries({"CreateTodo"}, batch[k].id)) = 1
      /\ successCount + errorCount = Len(batch)

\* A call for the first item failed and the second item was attempted.
C5_Witness ==
    /\ TickDone
    /\ Len(batch) = 2
    /\ \E e \in DOMAIN trace : trace[e].id = batch[1].id /\ ~trace[e].db
    /\ Entries({"CreateTodo"}, batch[2].id) # {}
    /\ successCount + errorCount = 2

\* C6: when a tick that fetched a batch has ended and the log store failed
\* no call, every item of the batch has one CreateTodoItem call and one new
\* log row, the new log rows are as many as the batch, and the todos added
\* are as many as the new rows of status success.
C6_OneTodoAttemptOneLogRow ==
    ( /\ TickDone
      /\ FetchOK
      /\ \A e \in DOMAIN trace : trace[e].op = "CreateLog" => trace[e].db )
    => /\ \A k \in DOMAIN batch :
            /\ Cardinality(Entries({"CreateTodo"}, batch[k].id)) = 1
            /\ Cardinality({ j \in NewLogs :
                   logs[j].scheduledItemId = batch[k].id }) = 1
       /\ Cardinality(NewLogs) = Len(batch)
       /\ Len(todos) - base.todos =
            Cardinality({ j \in NewLogs : logs[j].status = "success" })

\* A batch of two, one todo created and one failed, both logged.
C6_Witness ==
    /\ TickDone
    /\ Len(batch) = 2
    /\ \A e \in DOMAIN trace : trace[e].op = "CreateLog" => trace[e].db
    /\ Cardinality(NewLogs) = 2
    /\ Len(todos) - base.todos = 1
    /\ \E j \in NewLogs : logs[j].status = "error"

\* C7: a tick whose due query returned no item is over at once: it made no
\* other store call, added no todo and no log row, and changed no stored
\* item.
C7_EmptyTickNoEffect ==
    (FetchOK /\ batch = << >>) =>
      /\ TickDone
      /\ Len(trace) = 1
      /\ Len(todos) = base.todos
      /\ Len(logs) = base.logs
      /\ FetchedItemsKept

\* The second tick of a run found nothing due in a store that holds items.
C7_Witness ==
    /\ TickDone
    /\ FetchOK
    /\ batch = << >>
    /\ ticks >= 2
    /\ DOMAIN base.items # {}
    /\ DOMAIN items = DOMAIN base.items

\* C8: a tick whose GetNextScheduledItems returned an error is over at once:
\* the query was its only store call (it is not called again in the tick),
\* no todo and no log row was added and no stored item was changed.
C8_FetchErrorEndsTick ==
    /\ Cardinality({ k \in DOMAIN trace : trace[k].op = "GetNext" }) <= 1
    /\ (Len(trace) >= 1 /\ trace[1].status = "error") =>
         /\ TickDone
         /\ Len(trace) = 1
         /\ batch = << >>
         /\ Len(todos) = base.todos
         /\ Len(logs) = base.logs
         /\ FetchedItemsKept

\* The failed query ran over a store holding an item that was due.
C8_Witness ==
    /\ TickDone
    /\ Len(trace) = 1
    /\ trace[1].status = "error"
    /\ \E id \in DOMAIN base.items :
         /\ base.items[id].nextExecutionAt <= base.at
         /\ base.items[id].expiration = None
         /\ id \in DOMAIN items

\* ------------------------------------------------- the due query alone
\* The ids a query result holds.
ReturnedIds(r) == { r.items[k].id : k \in DOMAIN r.items }

\* A query that asked for the whole result: offset 0, a limit that no
\* result exceeds.
WholeResult ==
    /\ query.limit > 0
    /\ query.offset = 0
    /\ query.limit >= Len(query.items)

\* The items the claims call due at the instant of the query: nextExecutionAt
\* at or before it, expiration absent or strictly after it.
DueAsClaimed ==
    { i \in DOMAIN query.items :
        /\ query.items[i].nextExecutionAt <= query.at
        /\ \/ query.items[i].expiration = None
           \/ query.items[i].expiration[1] > query.at }

\* C9: GetNextScheduledItems, asked for the whole result, returns an item if
\* and only if its nextExecutionAt is at or before now and its expiration is
\* absent or still in the future, in the in-memory store and in the
\* relational one.
C9_DueIffNotAfterNowAndUnexpired ==
    WholeResult =>
      /\ query.memory.status = "ok"
           => ReturnedIds(query.memory) = DueAsClaimed
      /\ query.postgres.status = "ok"
           => ReturnedIds(query.postgres) = DueAsClaimed

\* The in-memory store returns an item that is not due as claimed, and the
\* relational store, holding the same items, does not.
C9_FailingInput ==
    /\ WholeResult
    /\ query.postgres.status = "ok"
    /\ ReturnedIds(query.postgres) = DueAsClaimed
    /\ \E id \in ReturnedIds(query.memory) : id \notin DueAsClaimed

\* C10: every item with an expiration that GetNextScheduledItems returns has
\* its expiration strictly after now (an expiration equal to now excludes
\* the item), in the in-memory store as in the relational one.
C10_ExpirationAtNowExcluded ==
    \A r \in {query.memory, query.postgres} :
      \A k \in DOMAIN r.items :
        r.items[k].expiration # None => r.items[k].expiration[1] > query.at

\* The in-memory store returns an item whose expiration is the instant of
\* the query.
C10_FailingInput ==
    \E k \in DOMAIN query.memory.items :
      query.memory.items[k].expiration = Some(query.at)

\* ------------------------------------------------------ claims C11 - C20
ItemOps == {"CreateTodo", "UpdateNext", "DeleteExpired", "DeleteCompleted",
            "CreateLog"}

\* The stored repeating items whose expiration was in the past when the
\* tick ran its due query.
ExpiredAtFetch ==
    { id \in DOMAIN base.items :
        /\ base.items[id].repeats
        /\ base.items[id].expiration # None
        /\ base.items[id].expiration[1] < base.at }

\* C11: a repeating item whose expiration is in the past when a tick runs
\* its due query is not in the batch, and the tick makes no store call for
\* it: no todo, no log row, no update, no delete; it stays stored unchanged.
C11_ExpiredRepeatingItemUntouched ==
    Len(trace) >= 1 =>
      \A id \in ExpiredAtFetch :
        /\ id \notin BatchIds
        /\ Entries(ItemOps, id) = {}
        /\ \A j \in NewLogs : logs[j].scheduledItemId # id
        /\ id \in DOMAIN items
        /\ items[id] = base.items[id]

\* A tick that processed another item has ended with the expired item
\* still stored.
C11_Witness ==
    /\ TickDone
    /\ FetchOK
    /\ batch # << >>
    /\ \E id \in ExpiredAtFetch :
         /\ base.items[id].nextExecutionAt <= base.at
         /\ id \in DOMAIN items

\* C12: for the same items and the same instant, asked for the whole result,
\* the in-memory store and the relational store return the same set of
\* items.
C12_StoresReturnSameSet ==
    ( /\ WholeResult
      /\ query.memory.status = "ok"
      /\ query.postgres.status = "ok" )
    => ReturnedIds(query.memory) = ReturnedIds(query.postgres)

\* The two stores answered the same query with different sets.
C12_FailingInput ==
    /\ WholeResult
    /\ query.memory.status = "ok"
    /\ query.postgres.status = "ok"
    /\ ReturnedIds(query.memory) # ReturnedIds(query.postgres)
    /\ \A i \in DOMAIN query.items :
         query.items[i].expiration = Some(query.at)

\* A sequence of items in ascending order of nextExecutionAt.
Ascending(seq) ==
    \A a, b \in DOMAIN seq :
      a < b => seq[a].nextExecutionAt <= seq[b].nextExecutionAt

\* The result r is the page [offset, offset + limit) of the items `due` put
\* in ascending order of nextExecutionAt.
IsPageOf(r, due) ==
    /\ r.status = "ok"
    /\ Ascending(r.items)
    /\ \E s \in Orderings(due) :
         r.items = SubSeq(s, query.offset + 1,
                          Min(query.offset + query.limit, Len(s)))

\* The due items of the query, as records.
DueItemsAsClaimed == { query.items[i] : i \in DueAsClaimed }

\* C13: the result of GetNextScheduledItems(limit, offset) is in ascending
\* order of nextExecutionAt and is the sub-sequence [offset, offset + limit)
\* of the sorted sequence of all due items, in either store (the database
\* answering).
C13_SortedPageOfDueItems ==
    query.limit > 0 =>
      /\ IsPageOf(query.memory, DueItemsAsClaimed)
      /\ query.postgres.status = "ok"
           => IsPageOf(query.postgres, DueItemsAsClaimed)

\* Three stored items, a page the relational store answers as claimed and
\* the in-memory store does not.
C13_FailingInput ==
    /\ query.limit > 0
    /\ Len(query.items) = 3
    /\ query.postgres.status = "ok"
    /\ IsPageOf(query.postgres, DueItemsAsClaimed)
    /\ ~IsPageOf(query.memory, DueItemsAsClaimed)

\* C14: GetNextScheduledItems called with an offset greater than the number
\* of due items returns an empty sequence and does not fail, in the
\* in-memory store as in the relational one (the database answering).
C14_OffsetBeyondEndIsEmpty ==
    (query.limit > 0 /\ query.offset > Cardinality(DueAsClaimed)) =>
      /\ query.memory.status = "ok"
      /\ query.memory.items = << >>
      /\ query.postgres.status = "ok" => query.postgres.items = << >>

\* The in-memory store did not return from a call whose offset is past the
\* due items, and the relational store returned the empty sequence.
C14_FailingInput ==
    /\ query.limit > 0
    /\ query.offset > Cardinality(DueAsClaimed)
    /\ query.memory.status = "panic"
    /\ query.postgres.status = "ok"
    /\ query.postgres.items = << >>

\* ------------------------------------- CalculateNextExecution alone
\* The call made is for a repeating item whose expression parses.
CalcRepeating ==
    /\ calc.done
    /\ calc.repeats
    /\ calc.cronExpression \in {Some(EveryMinute), Some(EveryTwoMin)}

\* The minutes between two fire times of the call's expression.
CalcEvery == IF calc.cronExpression = Some(EveryTwoMin) THEN 2 ELSE 1

\* The first fire time strictly after t.
FireAfter(t) == ((t \div (CalcEvery * Minute)) + 1) * (CalcEvery * Minute)

\* C15: for an item that does not repeat, CalculateNextExecution returns
\* startsAt when startsAt is strictly after now and none otherwise (none
\* when startsAt equals now), whatever the cron expression and expiration.
C15_OneTimeResult ==
    (calc.done /\ ~calc.repeats) =>
      calc.result = IF calc.startsAt > calc.now THEN Some(calc.startsAt)
                    ELSE None

\* startsAt equal to now, with an expression and an expiration given.
C15_Witness ==
    /\ calc.done
    /\ ~calc.repeats
    /\ calc.startsAt = calc.now
    /\ calc.cronExpression = Some(EveryMinute)
    /\ calc.expiration # None
    /\ calc.result = None

\* C16: for a repeating item, CalculateNextExecution returns none when the
\* cron expression is absent, empty or does not parse, for every startsAt
\* and expiration.
C16_NoScheduleNoResult ==
    ( /\ calc.done
      /\ calc.repeats
      /\ calc.cronExpression \notin {Some(EveryMinute), Some(EveryTwoMin)} )
    => calc.result = None

\* An expression that does not parse, a start in the future, no expiration.
C16_Witness ==
    /\ calc.done
    /\ calc.repeats
    /\ calc.cronExpression = Some("bad")
    /\ calc.startsAt > calc.now
    /\ calc.expiration = None
    /\ calc.result = None

\* C17: for a repeating item with an expiration, CalculateNextExecution
\* returns none when the next fire time after now is at or after the
\* expiration, the two being equal included.
C17_NoneAtOrAfterExpiration ==
    ( /\ CalcRepeating
      /\ calc.expiration # None
      /\ FireAfter(calc.now) >= calc.expiration[1] )
    => calc.result = None

\* The next fire time is the expiration instant and it is returned.
C17_FailingInput ==
    /\ CalcRepeating
    /\ calc.startsAt <= calc.now
    /\ calc.expiration = Some(FireAfter(calc.now))
    /\ calc.result = Some(FireAfter(calc.now))

\* C18: for a repeating item whose next fire time after now is before
\* startsAt, CalculateNextExecution returns the first fire time strictly
\* after startsAt, or none if that fire time is at or after the expiration.
C18_AdjustedStrictlyAfterStart ==
    (CalcRepeating /\ FireAfter(calc.now) < calc.startsAt) =>
      calc.result =
        IF /\ calc.expiration # None
           /\ FireAfter(calc.startsAt) >= calc.expiration[1]
        THEN None
        ELSE Some(FireAfter(calc.startsAt))

\* startsAt is a fire time and is returned.
C18_FailingInput ==
    /\ CalcRepeating
    /\ FireAfter(calc.now) < calc.startsAt
    /\ calc.expiration = None
    /\ calc.result = Some(calc.startsAt)

\* ------------------------------------------------- logExecution alone
\* The arguments of the call pass logExecution's checks as specified.
LogArgsValid ==
    /\ logCall.scheduledItemID > 0
    /\ logCall.status \in {"success", "error", "skipped"}

\* The call appended exactly one row, holding the arguments as given.
OneRowAppended ==
    /\ Len(logs) = Len(logCall.before) + 1
    /\ SubSeq(logs, 1, Len(logCall.before)) = logCall.before
    /\ logs[Len(logs)].scheduledItemId = logCall.scheduledItemID
    /\ logs[Len(logs)].status = logCall.status
    /\ logs[Len(logs)].errorMessage = logCall.errorMessage
    /\ logs[Len(logs)].todoItemId = logCall.todoItemID

\* C19 (as amended): logExecution leaves the log store unchanged when
\* scheduledItemId <= 0 or the status is not success, error or skipped; for
\* a positive id and one of the three statuses it appends exactly one row
\* holding the arguments as given, provided the store's insert goes through,
\* and leaves the store unchanged when the insert fails.
C19_LogExecutionValidates ==
    logCall.done =>
      /\ ~LogArgsValid => logs = logCall.before
      /\ (LogArgsValid /\ logCall.db) => OneRowAppended
      /\ (LogArgsValid /\ ~logCall.db) => logs = logCall.before

\* A call with a status outside the set was dropped, on a store that holds
\* a row and would have accepted another.
C19_Witness ==
    /\ logCall.done
    /\ logCall.scheduledItemID > 0
    /\ logCall.status = "invalid_status"
    /\ logCall.db
    /\ logCall.before # << >>
    /\ logs = logCall.before

\* C19 as stated: the valid call appends exactly one row, without a
\* condition on the store.
C19_AsStated ==
    logCall.done =>
      /\ ~LogArgsValid => logs = logCall.before
      /\ LogArgsValid => OneRowAppended

\* C20: when Delete or UpdateNextExecutionAt is issued for an item of the
\* batch, the tick has already recorded the item's success row: every such
\* call of the tick comes after a logExecution call with status success for
\* the same item.
C20_SuccessLoggedBeforeReconcile ==
    \A e \in DOMAIN trace :
      trace[e].op \in WriteOps =>
        \E l \in DOMAIN trace :
          /\ l < e
          /\ trace[l].op = "CreateLog"
          /\ trace[l].id = trace[e].id
          /\ trace[l].status = "success"

\* A tick over the in-memory stores has reconciled an item and logged its
\* success row afterwards.
C20_FailingInput ==
    /\ TickDone
    /\ backend = "memory"
    /\ \E e, l \in DOMAIN trace :
         /\ e < l
         /\ trace[e].op \in WriteOps
         /\ trace[e].ok
         /\ trace[l].op = "CreateLog"
         /\ trace[l].id = trace[e].id
         /\ trace[l].status = "success"
         /\ trace[l].ok

\* ------------------------------------------------------ claims C21 - C30
DeleteOps == {"DeleteCompleted", "DeleteExpired"}

\* C21: for an item of the batch that does not repeat, a tick issues at most
\* one Delete call and no UpdateNextExecutionAt call; a Delete that failed
\* is not issued again in the tick.
C21_OneDeleteForOneTimeItem ==
    \A k \in DOMAIN batch :
      ~batch[k].repeats =>
        /\ Cardinality(Entries(DeleteOps, batch[k].id)) <= 1
        /\ Entries({"UpdateNext"}, batch[k].id) = {}

\* The Delete of a one-time item failed and the tick issued a second Delete
\* for it, which removed the item.
C21_FailingInput ==
    /\ TickDone
    /\ \E k \in DOMAIN batch :
         /\ ~batch[k].repeats
         /\ \E e \in Entries({"DeleteCompleted"}, batch[k].id) : ~trace[e].db
         /\ \E e \in Entries({"DeleteExpired"}, batch[k].id) : trace[e].ok
         /\ batch[k].id \notin DOMAIN items

\* The steps of processScheduledItems between its fetch and its return.
ItemSteps == {"create", "delete", "next", "log"}

\* C22: ticks never overlap.  A tick starts only where main calls
\* processScheduledItems, before the loop or in the ticker case of its
\* select, never while a tick is in progress, also when the timer has fired
\* during a tick that lasts longer than the interval; and the loop is back
\* at its select only from the last step of a tick.
C22_TicksNeverOverlap ==
    [][ /\ ticks' # ticks => (pc \in {"start", "select"} /\ pc' = "fetch")
        /\ (pc' = "select" /\ pc # "select") =>
             \/ pc = "fetch"
             \/ pc = "log" /\ idx = Len(batch) ]_vars

\* The timer has fired while a tick that has lasted an interval or longer
\* is still processing its batch.
C22_Witness ==
    /\ pc \in ItemSteps
    /\ tickerC
    /\ now - base.at >= Minute \div 2
    /\ ticks < MaxTicks

\* The places of the trace where a signal arrived.
Signals == { e \in DOMAIN trace : trace[e].op = "Signal" }

\* The tick has made every call it owes an item of the batch.
ItemCompleted(id) ==
    /\ Entries({"CreateTodo"}, id) # {}
    /\ Entries({"CreateLog"}, id) # {}
    /\ TodoCreated(id) => Entries(ReconcileOps, id) # {}

\* C23: a shutdown signal is acted on only between ticks.  When the
\* scheduler has stopped, the tick it was in when the signal arrived has
\* run to its end: every item of the batch has had its todo attempted and
\* its log call made, and its reconcile when the todo was created.
C23_ShutdownBetweenTicks ==
    pc = "stopped" => \A k \in DOMAIN batch : ItemCompleted(batch[k].id)

\* The signal arrived between the todo creation and the log call of the
\* first item of a batch of two, and the scheduler stopped after the second.
C23_Witness ==
    /\ pc = "stopped"
    /\ Len(batch) = 2
    /\ \E e \in Signals :
         /\ trace[e].status \in {"delete", "next", "log"}
         /\ \E c \in Entries({"CreateTodo"}, batch[2].id) : e < c
         /\ \E l \in Entries({"CreateLog"}, batch[1].id) : e < l
    /\ ItemCompleted(batch[2].id)

\* The todo creations of the tick that returned a todo.
TodosCreated == { e \in DOMAIN trace : trace[e].op = "CreateTodo" /\ trace[e].ok }

\* C24: a tick leaves unchanged every scheduled item that is not in its
\* batch.  An item stored at the fetch with nextExecutionAt after the
\* instant of the fetch is not in the batch; an item stored at the fetch
\* and not in the batch is stored with every field as it was, no store call
\* of the tick names it, no log row of the tick is about it, and the todos
\* of the tick are those created for items of the batch.
C24_ItemsOutsideBatchUntouched ==
    trace # << >> =>
      /\ \A id \in DOMAIN base.items :
           /\ base.items[id].nextExecutionAt > base.at => id \notin BatchIds
           /\ id \notin BatchIds =>
                /\ id \in DOMAIN items
                /\ items[id] = base.items[id]
                /\ Entries(ItemOps, id) = {}
                /\ \A j \in NewLogs : logs[j].scheduledItemId # id
      /\ \A e \in TodosCreated : trace[e].id \in BatchIds
      /\ Len(todos) - base.todos = Cardinality(TodosCreated)

\* A tick has rescheduled an item of its batch while another item, not yet
\* due at the fetch, was stored.
C24_Witness ==
    /\ TickDone
    /\ \E k \in DOMAIN batch :
         /\ \E e \in Entries({"UpdateNext"}, batch[k].id) : trace[e].ok
         /\ TodoCreated(batch[k].id)
    /\ \E id \in DOMAIN base.items :
         /\ id \notin BatchIds
         /\ base.items[id].nextExecutionAt > base.at
         /\ items[id] = base.items[id]

\* The text the todo of an item is to carry.
TextAsClaimed(it) ==
    IF it.description = "" THEN it.title
    ELSE it.title \o " - " \o it.description

\* The rows of the todo store with an id.
TodoRows(id) == { j \in DOMAIN todos : todos[j].id = id }

\* C25: the todo created for a due item is stored unchecked, with the
\* item's title as its text when the description is empty and with
\* title, " - " and description otherwise.
C25_TodoTextAndUnchecked ==
    \A e \in TodosCreated :
      \E k \in DOMAIN batch :
        /\ batch[k].id = trace[e].id
        /\ TodoRows(trace[e].todo) # {}
        /\ \A j \in TodoRows(trace[e].todo) :
             /\ j > base.todos
             /\ todos[j].checked = FALSE
             /\ todos[j].text = TextAsClaimed(batch[k])

\* One tick has created a todo for an item with a description and a todo
\* for an item without one.
C25_Witness ==
    /\ TickDone
    /\ \E e1, e2 \in TodosCreated :
         \E k1, k2 \in DOMAIN batch :
           /\ batch[k1].id = trace[e1].id
           /\ batch[k2].id = trace[e2].id
           /\ batch[k1].description = ""
           /\ batch[k2].description # ""
           /\ \E j \in TodoRows(trace[e1].todo) : todos[j].text = "T"
           /\ \E j \in TodoRows(trace[e2].todo) : todos[j].text = "T - D"

\* The stored form of a result of CalculateNextExecution.
StoredNext(r) == IF r = None THEN NilInstant ELSE r[1]

\* The instants up to the clock.
Past == { t \in Instants : t <= now }

\* The nextExecutionAt of an item is what CalculateNextExecution returns
\* for the item's own fields at some instant up to the clock.
CalculatedNext(it) ==
    \E t \in Past :
      it.nextExecutionAt =
        StoredNext(CalculateNextExecution(it.startsAt, it.repeats,
                       it.cronExpression, it.expiration, t))

PastOneTime ==
    { c \in DOMAIN apiCreated :
        ~apiCreated[c].repeats /\ apiCreated[c].startsAt < apiCreated[c].at }

C29_LogRowsCarryTheirIds ==
    /\ \A j \in DOMAIN logs :
         /\ logs[j].status \in {"success", "error"}
         /\ logs[j].status = "success" =>
              /\ logs[j].errorMessage = None
              /\ logs[j].todoItemId # None
              /\ TodoRows(logs[j].todoItemId[1]) # {}
         /\ logs[j].status = "error" =>
              /\ logs[j].errorMessage \notin {None, Some("")}
              /\ logs[j].todoItemId = None
    /\ \A j \in IF trace = << >> THEN {} ELSE NewLogs :
         /\ logs[j].scheduledItemId \in BatchIds
         /\ logs[j].status = "success" =>
              \E e \in Entries({"CreateTodo"}, logs[j].scheduledItemId) :
                /\ trace[e].ok
                /\ Some(trace[e].todo) = logs[j].todoItemId
         /\ logs[j].status = "error" => TodoFailed(logs[j].scheduledItemId)

\* One tick has written a success row and an error row.
C29_Witness ==
    /\ TickDone
    /\ \E j1, j2 \in NewLogs :
         /\ logs[j1].status = "success"
         /\ logs[j1].todoItemId # None
         /\ TodoRows(logs[j1].todoItemId[1]) # {}
         /\ logs[j2].status = "error"
         /\ logs[j2].errorMessage = Some(ErrorMsg)

\* C30: the execution log is append-only over any sequence of ticks.  No
\* step removes or changes a row, the number of rows never decreases, and
\* a row added has an id that no earlier row has.
C30_LogAppendOnly ==
    [][ /\ Len(logs') >= Len(logs)
        /\ SubSeq(logs', 1, Len(logs)) = logs
        /\ \A j \in (Len(logs) + 1) .. Len(logs') :
             \A k \in 1 .. (j - 1) : logs'[k].id # logs'[j].id ]_vars

\* The second tick has added a row to the rows of the first.
C30_Witness ==
    /\ ticks = 2
    /\ trace # << >>
    /\ base.logs >= 1
    /\ NewLogs # {}
    /\ \A j, k \in DOMAIN logs : j # k => logs[j].id # logs[k].id

\* ------------------------------------------------------ claims C31 - C40
\* The items stored at the fetch that the claims call due at its instant.
DueAtFetch ==
    { base.items[i] : i \in { j \in DOMAIN base.items :
        /\ base.items[j].nextExecutionAt <= base.at
        /\ \/ base.items[j].expiration = None
           \/ base.items[j].expiration[1] > base.at } }

\* The places of the trace where the tick called CreateTodoItem, in order.
RECURSIVE TodoCalls(_)
TodoCalls(n) ==
    IF n = 0 THEN << >>
    ELSE IF trace[n].op = "CreateTodo"
         THEN Append(TodoCalls(n - 1), trace[n].id)
         ELSE TodoCalls(n - 1)

\* C31: a tick fetches with the limit and offset 0 and processes the batch
\* in the order returned.  The batch holds at most limit items, they are
\* due items, as many as the limit allows, none of the due items left out
\* is earlier than one of the batch, and the batch is in ascending order of
\* nextExecutionAt; the todo calls of the tick follow the order of the
\* batch; a due item beyond the limit is stored unchanged.
C31_EarliestDueItemsInOrder ==
    FetchOK =>
      /\ Len(batch) <= ScaledLimit
      /\ Cardinality(TodosCreated) <= ScaledLimit
      /\ \A k \in DOMAIN batch : batch[k] \in DueAtFetch
      /\ Len(batch) = Min(ScaledLimit, Cardinality(DueAtFetch))
      /\ Ascending(batch)
      /\ \A k \in DOMAIN batch : \A d \in DueAtFetch :
           d.id \notin BatchIds => batch[k].nextExecutionAt <= d.nextExecutionAt
      /\ LET calls == TodoCalls(Len(trace)) IN
         /\ Len(calls) <= Len(batch)
         /\ \A k \in DOMAIN calls : calls[k] = batch[k].id
      /\ \A d \in DueAtFetch :
           d.id \notin BatchIds => (d.id \in DOMAIN items /\ items[d.id] = d)

\* The in-memory store holds a due item and an item whose expiration is the
\* instant of the fetch; the batch of one is the item that has expired.
C31_FailingInput ==
    /\ FetchOK
    /\ backend = "memory"
    /\ Len(batch) = 1
    /\ batch[1].expiration = Some(base.at)
    /\ \E d \in DueAtFetch : d.id \notin BatchIds

\* The Delete call that updateProcessedScheduledItem makes first for an item
\* that does not repeat failed in the database.
FirstDeleteFailed(id) ==
    \E e \in Entries({"DeleteCompleted"}, id) : ~trace[e].db

\* C32: when the Delete of a one-time item whose todo was created fails,
\* the item stays in the store as it was fetched, nextExecutionAt included
\* (so that the due query of the next tick returns it again and a second
\* todo and success log follow).
C32_FailedDeleteLeavesItemDue ==
    TickDone =>
      \A k \in DOMAIN batch :
        (~batch[k].repeats /\ TodoCreated(batch[k].id)
           /\ FirstDeleteFailed(batch[k].id)) =>
          /\ batch[k].id \in DOMAIN items
          /\ items[batch[k].id] = batch[k]

\* The Delete of a one-time item failed, the tick went on to a second store
\* call for the item that succeeded, and wrote the success log: the item is
\* gone, or stored with another nextExecutionAt.
C32_FailingInput ==
    /\ TickDone
    /\ \E k \in DOMAIN batch :
         /\ ~batch[k].repeats
         /\ TodoCreated(batch[k].id)
         /\ FirstDeleteFailed(batch[k].id)
         /\ \E e \in Entries({"DeleteExpired", "UpdateNext"}, batch[k].id) :
              trace[e].ok
         /\ \E j \in NewLogs :
              logs[j].scheduledItemId = batch[k].id /\ logs[j].status = "success"
         /\ \/ batch[k].id \notin DOMAIN items
            \/ items[batch[k].id] # batch[k]

\* The step appends a call of UpdateNextExecutionAt to the trace.
UpdateNextCalled ==
    /\ Len(trace') = Len(trace) + 1
    /\ trace'[Len(trace')].op = "UpdateNext"

AllCallsSucceeded == \A e \in DOMAIN trace : trace[e].db

\* What the due query of the store returns at the instant of the tick's
\* fetch, the store being as it is now.
DueAgain ==
    UNION { { r.items[k].id : k \in DOMAIN r.items } :
            r \in GetNextScheduledItems(backend, items, base.at, BatchLimit, 0) }

\* C36: after a tick in which every repository call succeeded, an item of
\* the batch that does not repeat is gone and one that repeats is gone or
\* has a nextExecutionAt after the instant of the tick's fetch; the due
\* query at that instant returns none of them again.
C36_ProcessedItemsNotDueAgain ==
    (TickDone /\ FetchOK /\ AllCallsSucceeded) =>
      /\ \A k \in DOMAIN batch :
           /\ ~batch[k].repeats => batch[k].id \notin DOMAIN items
           /\ batch[k].id \in DOMAIN items =>
                /\ items[batch[k].id].nextExecutionAt > base.at
                /\ \A e \in Entries({"UpdateNext"}, batch[k].id) :
                     items[batch[k].id].nextExecutionAt > trace[e].at
      /\ DueAgain \cap BatchIds = {}

\* A tick without a failed call has processed a one-time item, which is
\* gone, and a repeating item, which is stored with a later nextExecutionAt.
C36_Witness ==
    /\ TickDone /\ FetchOK /\ AllCallsSucceeded
    /\ \E k \in DOMAIN batch :
         ~batch[k].repeats /\ batch[k].id \notin DOMAIN items
    /\ \E k \in DOMAIN batch :
         /\ batch[k].repeats
         /\ batch[k].id \in DOMAIN items
         /\ items[batch[k].id].nextExecutionAt > base.at
    /\ \A k \in DOMAIN batch : TodoCreated(batch[k].id)

\* The reconcile calls of the tick that found no row for the id.
MissedCalls(id) ==
    { e \in Entries(ReconcileOps, id) : trace[e].db /\ ~trace[e].ok }

\* C37: an item that a Delete of the API removed is never stored again: the
\* UpdateNextExecutionAt and Delete calls which a tick makes for an item it
\* had fetched before the Delete do not put it back.
C37_DeletedItemStaysDeleted ==
    apiDeleted \cap DOMAIN items = {}

\* The API deleted an item of the batch after the fetch, and the tick went
\* on to call UpdateNextExecutionAt for it, which found no row.
C37_Witness ==
    \E id \in apiDeleted \cap BatchIds :
      /\ TodoCreated(id)
      /\ \E e \in MissedCalls(id) : trace[e].op = "UpdateNext"
      /\ \E k \in DOMAIN batch : batch[k].id = id /\ batch[k].repeats
      /\ id \notin DOMAIN items

\* The store calls of the tick that were to reschedule or remove the item
\* and failed in the database.
FailedWrites(id) == { e \in Entries(WriteOps, id) : ~trace[e].db }

\* C38: the status of the log depends on the todo alone.  When the todo of
\* an item was created and a following UpdateNextExecutionAt or Delete
\* failed, the tick calls the log with status success and never with
\* error, the todo stays stored, and the item stays stored as it was
\* fetched, due for the next tick.
C38_FailedReconcileStillSuccess ==
    TickDone =>
      \A k \in DOMAIN batch :
        (TodoCreated(batch[k].id) /\ FailedWrites(batch[k].id) # {}) =>
          /\ Entries({"CreateLog"}, batch[k].id) # {}
          /\ \A e \in Entries({"CreateLog"}, batch[k].id) :
               trace[e].status = "success"
          /\ \A e \in Entries({"CreateTodo"}, batch[k].id) :
               trace[e].ok => TodoRows(trace[e].todo) # {}
          /\ batch[k].id \in DOMAIN items
          /\ items[batch[k].id] = batch[k]

\* The Delete of a one-time item failed after its todo was created; the
\* success log was stored and the todo kept, but the second store call of
\* the tick went through and the item is not stored as it was fetched.
C38_FailingInput ==
    /\ TickDone
    /\ \E k \in DOMAIN batch :
         /\ TodoCreated(batch[k].id)
         /\ FailedWrites(batch[k].id) # {}
         /\ \E e \in Entries({"CreateLog"}, batch[k].id) :
              trace[e].status = "success" /\ trace[e].ok
         /\ \A e \in Entries({"CreateTodo"}, batch[k].id) :
              trace[e].ok => TodoRows(trace[e].todo) # {}
         /\ ~(batch[k].id \in DOMAIN items /\ items[batch[k].id] = batch[k])

\* C40: once a shutdown signal has been received, the scheduler loop comes
\* to its end: the tick in progress ends and the select takes the signal
\* after finitely many further ticks, also with ticks of the ticker pending.
C40_SignalledLoopTerminates ==
    sigChan ~> (pc = "stopped")

\* The loop has stopped on the signal after more ticks than the model
\* counts, and a tick of the ticker was pending when the select took the
\* signal.
C40_Witness ==
    /\ pc = "stopped"
    /\ ~sigChan
    /\ tickerC
    /\ ticks = MaxTicks
    /\ Signals # {}

\* The item is stored, due at the clock and not expired.
DueNow(id) ==
    /\ id \in DOMAIN items
    /\ items[id].nextExecutionAt <= now
    /\ (items[id].expiration = None \/ items[id].expiration[1] > now)

\* The item is stored and its expiration has been reached.
ExpiredNow(id) ==
    /\ id \in DOMAIN items
    /\ items[id].expiration # None
    /\ items[id].expiration[1] <= now

\* The success rows of the log for the item: one for each of its todos.
SuccessRows(id) ==
    { j \in DOMAIN logs :
        logs[j].scheduledItemId = id /\ logs[j].status = "success" }

\* The numbers of todos an item can have had.
Runs == 0 .. MaxTime + 1

\* C39 as stated: with no failing call, no signal and a ticker that keeps
\* firing, an item that is due and not expired eventually gets a todo, also
\* with more due items than the limit of the fetch.
C39_EveryDueItemGetsTodo ==
    \A id \in 1 .. MaxItems : \A n \in Runs :
      (DueNow(id) /\ Cardinality(SuccessRows(id)) = n)
        ~> (Cardinality(SuccessRows(id)) > n)

\* C39 as amended: an item that is due and not expired eventually gets a
\* todo unless its expiration is reached before a tick fetches it.
C39_EveryDueItemGetsTodoOrExpires ==
    \A id \in 1 .. MaxItems : \A n \in Runs :
      (DueNow(id) /\ Cardinality(SuccessRows(id)) = n)
        ~> (Cardinality(SuccessRows(id)) > n \/ ExpiredNow(id))

\* Two items were due at once with a limit of one: the second got its todo
\* in a later tick than the first.
C39_Witness ==
    /\ ScaledLimit < MaxItems
    /\ ticks >= 2
    /\ Len(logs) >= 2
    /\ logs[1].scheduledItemId # logs[2].scheduledItemId
    /\ logs[1].status = "success"
    /\ logs[2].status = "success"
    /\ \A id \in {1, 2} : id \in DOMAIN base.items =>
         base.items[id].nextExecutionAt = 0

\* The occurrences an item can have had up to the clock: one for an item
\* that does not repeat (an item that is no longer stored was one: the
\* repeating items of the model never expire), one a minute for the others.
Occurrences(id) ==
    IF id \in DOMAIN items /\ items[id].repeats THEN now \div Minute + 1 ELSE 1

\* C33: with a single scheduler process and no failing call no item gets
\* more todos (success rows) than it has had occurrences; an item that has
\* more got one of them from the second process, which runs one tick.
C33_DuplicatesNeedTwoLoops ==
    \A id \in 1 .. MaxItems :
      /\ other.pc = "off" => Cardinality(SuccessRows(id)) <= Occurrences(id)
      /\ Cardinality(SuccessRows(id)) > Occurrences(id) =>
           /\ id \in other.created
           /\ Cardinality(SuccessRows(id)) = Occurrences(id) + 1

\* Both processes hold the same copy of an item in their batches, fetched
\* before either had rescheduled or deleted it; each has created a todo for
\* it and written a success row: two todos for one occurrence.
C33_Witness ==
    \E k \in DOMAIN batch : \E m \in DOMAIN other.batch :
      /\ batch[k] = other.batch[m]
      /\ ~batch[k].repeats
      /\ TodoCreated(batch[k].id)
      /\ batch[k].id \in other.created
      /\ Cardinality(SuccessRows(batch[k].id)) = 2
      /\ Cardinality({ logs[j].todoItemId : j \in SuccessRows(batch[k].id) }) = 2
      /\ \A j \in SuccessRows(batch[k].id) :
           TodoRows(logs[j].todoItemId[1]) # {}

\* C34: under any interleaving of concurrent Create and Delete calls on the
\* in-memory store, the ids are assigned in strictly increasing order (so
\* no two calls get the same id), an id that was deleted is never in the
\* store again, and the item of every Create that has returned is stored
\* under its own id unless a Delete has removed it.
C34_IdsUniqueAndIncreasing ==
    /\ \A i, j \in DOMAIN mem.assigned :
         i < j => mem.assigned[i] < mem.assigned[j]
    /\ \A r, q \in mem.returned : r.id = q.id => r = q
    /\ mem.deleted \cap DOMAIN mem.items = {}
    /\ \A r \in mem.returned :
         \/ r.id \in mem.deleted
         \/ (r.id \in DOMAIN mem.items /\ mem.items[r.id] = r.token)

\* A Create has returned and its item has been deleted; a second Create
\* holds the lock with a larger id while a third call waits for the lock.
C34_Witness ==
    /\ mem.deleted # {}
    /\ mem.returned # {}
    /\ \E p, q \in Procs :
         /\ p # q
         /\ Proc(p).pc = "store"
         /\ mem.lock = p
         /\ Proc(q).pc \in {"create", "delete"}
         /\ \A d \in mem.deleted : Proc(p).id > d

====
